---- MODULE Spec2Model ----
(***************************************************************************)
(* Model of registry/auth/github/access.go: the "github" access            *)
(* controller of the registry.  A request carries an Authorization header; *)
(* Authorized extracts the token, tries the GitHub Actions OIDC (claims)   *)
(* verifier when it is enabled and falls back to the GitHub API (profile   *)
(* call, then organization membership calls).                              *)
(*                                                                         *)
(* Strings are sequences of one-character strings, bytes are integers, so  *)
(* that prefix tests, splitting, base64 and JSON are computed as the code  *)
(* computes them.                                                          *)
(***************************************************************************)
EXTENDS Integers, Sequences, FiniteSets, TLC

VARIABLES
    options,   \* the configuration map handed to newAccessController
    ac,        \* the accessController built from it (or the construction error)
    pc,        \* per request: position of the goroutine serving it
    header,    \* per request: the inbound Authorization header
    now,       \* per request: the value time.Now().Unix() returns to it
    token,     \* per request: the local variable token of Authorized
    oidc,      \* per request: what authenticateOIDC returned (line 151)
    user,      \* per request: the githubUser parsed from the profile body
    orgIdx,    \* per request: index of the organization being queried
    calls,     \* per request: the outbound requests handed to httpClient.Do
    canceled,  \* per request: whether req.Context() has been canceled
    result,    \* per request: the (Grant, error) pair Authorized returned
    issued,    \* the oidcTokenPayload a workflow's token is issued for
    wire,      \* that token as it goes over the wire
    received   \* what decodeOIDCToken returned for it

vars == <<options, ac, pc, header, now, token, oidc, user, orgIdx, calls,
          canceled, result, issued, wire, received>>

----------------------------------------------------------------------------
(* Characters and bytes *)

\* The printable ASCII characters, code 32 .. 126, in code order (the backquote,
\* code 96, is written "GRAVE": the lexer does not take it inside a string).
Ascii ==
    <<" ", "!", "\"", "#", "$", "%", "&", "'", "(", ")", "*", "+", ",", "-",
      ".", "/", "0", "1", "2", "3", "4", "5", "6", "7", "8", "9", ":", ";",
      "<", "=", ">", "?", "@", "A", "B", "C", "D", "E", "F", "G", "H", "I",
      "J", "K", "L", "M", "N", "O", "P", "Q", "R", "S", "T", "U", "V", "W",
      "X", "Y", "Z", "[", "\\", "]", "^", "_", "GRAVE", "a", "b", "c", "d", "e",
      "f", "g", "h", "i", "j", "k", "l", "m", "n", "o", "p", "q", "r", "s",
      "t", "u", "v", "w", "x", "y", "z", "{", "|", "}", "~">>

IndexOf(tbl, c) ==
    IF \E i \in 1..Len(tbl) : tbl[i] = c
    THEN CHOOSE i \in 1..Len(tbl) : tbl[i] = c
    ELSE 0

\* byte value of a character, and back (0 / "?" outside printable ASCII)
CharCode(c) ==
    LET code(i) == IF i = 0 THEN 0 ELSE i + 31
    IN  code(IndexOf(Ascii, c))
IsPrintable(b) == b >= 32 /\ b <= 126
CodeChar(b) == IF IsPrintable(b) THEN Ascii[b - 31] ELSE "?"

StrBytes(s) == [i \in 1..Len(s) |-> CharCode(s[i])]
BytesStr(bs) == [i \in 1..Len(bs) |-> CodeChar(bs[i])]

Digits == <<"0", "1", "2", "3", "4", "5", "6", "7", "8", "9">>
IsDigit(c) == IndexOf(Digits, c) # 0
DigitVal(c) == IndexOf(Digits, c) - 1

\* strings.HasPrefix / strings.TrimPrefix
HasPrefix(s, p) == Len(s) >= Len(p) /\ SubSeq(s, 1, Len(p)) = p
TrimPrefix(s, p) == IF HasPrefix(s, p) THEN SubSeq(s, Len(p) + 1, Len(s)) ELSE s

\* strings.TrimRight(s, "/")
RECURSIVE TrimRightSlash(_)
TrimRightSlash(s) ==
    IF s # <<>> /\ s[Len(s)] = "/"
    THEN TrimRightSlash(SubSeq(s, 1, Len(s) - 1))
    ELSE s

\* strings.ReplaceAll(s, from, to) for single characters
ReplaceAll(s, from, to) == [i \in 1..Len(s) |-> IF s[i] = from THEN to ELSE s[i]]

\* strings.Split(s, "."): the segments between the dots
DotsBefore(s, i) == Cardinality({m \in 1..(i - 1) : s[m] = "."})
Split(s) ==
    LET n == DotsBefore(s, Len(s) + 1)
        dot(j) == IF j = 0 THEN 0
                  ELSE IF j = n + 1 THEN Len(s) + 1
                  ELSE CHOOSE i \in 1..Len(s) : s[i] = "." /\ DotsBefore(s, i) = j - 1
    IN  [k \in 1..(n + 1) |-> SubSeq(s, dot(k - 1) + 1, dot(k) - 1)]

----------------------------------------------------------------------------
(* encoding/base64 *)

StdAlphabet ==
    <<"A", "B", "C", "D", "E", "F", "G", "H", "I", "J", "K", "L", "M", "N",
      "O", "P", "Q", "R", "S", "T", "U", "V", "W", "X", "Y", "Z", "a", "b",
      "c", "d", "e", "f", "g", "h", "i", "j", "k", "l", "m", "n", "o", "p",
      "q", "r", "s", "t", "u", "v", "w", "x", "y", "z", "0", "1", "2", "3",
      "4", "5", "6", "7", "8", "9", "+", "/">>

URLAlphabet == [i \in 1..64 |->
    IF i = 63 THEN "-" ELSE IF i = 64 THEN "_" ELSE StdAlphabet[i]]

InStd(c) == IndexOf(StdAlphabet, c) # 0

\* the six bits of a character of the alphabet, 0 for any other character
Sextet(c) ==
    LET bits(i) == IF i = 0 THEN 0 ELSE i - 1
    IN  bits(IndexOf(StdAlphabet, c))

\* base64.StdEncoding.DecodeString: quantum by quantum, padding only at the
\* end of the last quantum, any other character or a short last quantum is
\* corrupt input.
StdDecode(s) ==
    LET n == Len(s)
        q == Len(s) \div 4
        pad == IF Len(s) >= 4 /\ s[Len(s)] = "="
               THEN (IF s[Len(s) - 1] = "=" THEN 2 ELSE 1)
               ELSE 0
        valid(k, p) ==
            /\ InStd(s[4 * k - 3])
            /\ InStd(s[4 * k - 2])
            /\ (InStd(s[4 * k - 1]) \/ (k = q /\ p = 2))
            /\ (InStd(s[4 * k]) \/ (k = q /\ p >= 1))
        word(k) == Sextet(s[4 * k - 3]) * 262144 + Sextet(s[4 * k - 2]) * 4096
                   + Sextet(s[4 * k - 1]) * 64 + Sextet(s[4 * k])
        pick(w, j) == IF j = 0 THEN w \div 65536
                      ELSE IF j = 1 THEN (w \div 256) % 256
                      ELSE w % 256
        byte(i) == pick(word(((i - 1) \div 3) + 1), (i - 1) % 3)
        decode(p) ==
            IF n % 4 = 0 /\ \A k \in 1..q : valid(k, p)
            THEN [ok |-> TRUE, bytes |-> [i \in 1..(3 * q - p) |-> byte(i)]]
            ELSE [ok |-> FALSE, bytes |-> <<>>]
    IN  decode(pad)

\* a variant of base64URLDecode: no padding is added
base64URLDecode_NoPadding(s) ==
    LET plus == ReplaceAll(s, "-", "+")
        slash == ReplaceAll(plus, "_", "/")
    IN  StdDecode(slash)

\* base64URLDecode (access.go): pad, map the URL-safe characters, decode.
base64URLDecode(s) ==
    LET padded == IF Len(s) % 4 = 2 THEN s \o <<"=", "=">>
                  ELSE IF Len(s) % 4 = 3 THEN s \o <<"=">>
                  ELSE s
        plus == ReplaceAll(padded, "-", "+")
        slash == ReplaceAll(plus, "_", "/")
    IN  StdDecode(slash)

\* base64.RawURLEncoding.EncodeToString, as the tests build tokens: six bits
\* per character, no padding.
RawURLEncode(bs) ==
    LET at(i) == IF i <= Len(bs) THEN bs[i] ELSE 0
        shift(w, r) == IF r = 0 THEN w \div 1024
                       ELSE IF r = 2 THEN w \div 256
                       ELSE IF r = 4 THEN w \div 64
                       ELSE w \div 16
        window(b) == at(b) * 256 + at(b + 1)
        char(off) == URLAlphabet[(shift(window((off \div 8) + 1), off % 8) % 64) + 1]
    IN  [i \in 1..((8 * Len(bs) + 5) \div 6) |-> char(6 * (i - 1))]

----------------------------------------------------------------------------
(* encoding/json, for flat objects whose values are strings without escapes *)
(* or integers, written without white space: the JSON the tests and the     *)
(* identity API produce.  Anything else is reported as a syntax error.      *)

\* index of the quote closing the string that opens before position i, 0 if none
RECURSIVE ScanString(_, _)
ScanString(s, i) ==
    IF i > Len(s) THEN 0
    ELSE IF s[i] = "\"" THEN i
    ELSE IF s[i] = "\\" THEN 0
    ELSE ScanString(s, i + 1)

ParseStringAt(s, i) ==
    LET close(j) ==
            IF j = 0 THEN [ok |-> FALSE, val |-> <<>>, next |-> i]
            ELSE [ok |-> TRUE, val |-> SubSeq(s, i + 1, j - 1), next |-> j + 1]
    IN  IF i > Len(s) \/ s[i] # "\"" THEN [ok |-> FALSE, val |-> <<>>, next |-> i]
        ELSE close(ScanString(s, i + 1))

RECURSIVE ScanDigits(_, _)
ScanDigits(s, i) == IF i <= Len(s) /\ IsDigit(s[i]) THEN ScanDigits(s, i + 1) ELSE i

RECURSIVE DigitsValue(_)
DigitsValue(ds) ==
    IF ds = <<>> THEN 0
    ELSE DigitsValue(SubSeq(ds, 1, Len(ds) - 1)) * 10 + DigitVal(ds[Len(ds)])

ParseNumberAt(s, i) ==
    LET number(neg, ds, to) ==
            IF ds = <<>> \/ (Len(ds) > 1 /\ ds[1] = "0")
            THEN [ok |-> FALSE, val |-> 0, next |-> i]
            ELSE [ok |-> TRUE, next |-> to,
                  val |-> IF neg THEN 0 - DigitsValue(ds) ELSE DigitsValue(ds)]
        digits(neg, from, to) == number(neg, SubSeq(s, from, to - 1), to)
        scan(neg, from) == digits(neg, from, ScanDigits(s, from))
        sign(neg) == scan(neg, IF neg THEN i + 1 ELSE i)
    IN  sign(i <= Len(s) /\ s[i] = "-")

ParseValueAt(s, i) ==
    LET string(r) ==
            [ok |-> r.ok, kind |-> "string", str |-> r.val, num |-> 0, next |-> r.next]
        number(r) ==
            [ok |-> r.ok, kind |-> "number", str |-> <<>>, num |-> r.val, next |-> r.next]
    IN  IF i <= Len(s) /\ s[i] = "\""
        THEN string(ParseStringAt(s, i))
        ELSE number(ParseNumberAt(s, i))

\* the members of an object from position i (just after "{" or ","), in order
RECURSIVE ParseMembers(_, _)
ParseMembers(s, i) ==
    LET bad == [ok |-> FALSE, members |-> <<>>]
        more(m, rest) ==
            IF rest.ok THEN [ok |-> TRUE, members |-> <<m>> \o rest.members] ELSE bad
        member(m, next) ==
            IF next > Len(s) THEN bad
            ELSE IF s[next] = "}" THEN
                IF next = Len(s) THEN [ok |-> TRUE, members |-> <<m>>] ELSE bad
            ELSE IF s[next] = "," THEN more(m, ParseMembers(s, next + 1))
            ELSE bad
        value(k, v) ==
            IF ~v.ok THEN bad
            ELSE member([key |-> k.val, kind |-> v.kind, str |-> v.str, num |-> v.num],
                        v.next)
        key(k) ==
            IF ~(k.ok /\ k.next <= Len(s) /\ s[k.next] = ":") THEN bad
            ELSE value(k, ParseValueAt(s, k.next + 1))
    IN  key(ParseStringAt(s, i))

ParseObject(s) ==
    IF Len(s) < 2 \/ s[1] # "{" THEN [ok |-> FALSE, members |-> <<>>]
    ELSE IF s = <<"{", "}">> THEN [ok |-> TRUE, members |-> <<>>]
    ELSE ParseMembers(s, 2)

\* json.Unmarshal into a struct: `fields` maps each JSON key of the struct to
\* <<field name, kind>>.  Unknown keys are skipped, a later duplicate wins, a
\* value of the wrong kind is an UnmarshalTypeError.
RECURSIVE StoreMembers(_, _, _)
StoreMembers(ms, fields, rec) ==
    IF ms = <<>> THEN [ok |-> TRUE, val |-> rec]
    ELSE LET m == ms[1]
             known == \E f \in fields : f[1] = m.key
             f == CHOOSE f \in fields : f[1] = m.key
         IN  IF ~known THEN StoreMembers(Tail(ms), fields, rec)
             ELSE IF f[3] # m.kind THEN [ok |-> FALSE, val |-> rec]
             ELSE StoreMembers(Tail(ms), fields,
                    [rec EXCEPT ![f[2]] = IF m.kind = "string" THEN m.str ELSE m.num])

Unmarshal(bytes, fields, zero) ==
    LET store(obj) ==
            IF ~obj.ok THEN [ok |-> FALSE, val |-> zero]
            ELSE StoreMembers(obj.members, fields, zero)
    IN  IF \E i \in 1..Len(bytes) : ~IsPrintable(bytes[i])
        THEN [ok |-> FALSE, val |-> zero]
        ELSE store(ParseObject(BytesStr(bytes)))

\* strconv.Itoa
RECURSIVE Itoa(_)
Itoa(n) ==
    IF n < 0 THEN <<"-">> \o Itoa(0 - n)
    ELSE IF n < 10 THEN <<Digits[n + 1]>>
    ELSE Itoa(n \div 10) \o <<Digits[(n % 10) + 1]>>

\* json.Marshal of a struct: the fields in declaration order
RECURSIVE MarshalFields(_, _)
MarshalFields(order, rec) ==
    IF order = <<>> THEN <<>>
    ELSE LET f == order[1]
             v == IF f[3] = "string" THEN <<"\"">> \o rec[f[2]] \o <<"\"">>
                  ELSE Itoa(rec[f[2]])
         IN  <<"\"">> \o f[1] \o <<"\"", ":">> \o v
             \o (IF Len(order) > 1 THEN <<",">> ELSE <<>>)
             \o MarshalFields(Tail(order), rec)

Marshal(order, rec) == <<"{">> \o MarshalFields(order, rec) \o <<"}">>

----------------------------------------------------------------------------
(* The types of access.go *)

\* oidcTokenPayload: JSON key, field, kind, in declaration order
oidcTokenPayloadFields ==
    << <<<<"s", "u", "b">>, "Sub", "string">>,
       <<<<"a", "u", "d">>, "Aud", "string">>,
       <<<<"r", "e", "p", "o", "s", "i", "t", "o", "r", "y">>, "Repository", "string">>,
       <<<<"a", "c", "t", "o", "r">>, "Actor", "string">>,
       <<<<"w", "o", "r", "k", "f", "l", "o", "w">>, "Workflow", "string">>,
       <<<<"r", "e", "f">>, "Ref", "string">>,
       <<<<"e", "x", "p">>, "Exp", "number">>,
       <<<<"i", "a", "t">>, "Iat", "number">> >>

ZeroPayload ==
    [Sub |-> <<>>, Aud |-> <<>>, Repository |-> <<>>, Actor |-> <<>>,
     Workflow |-> <<>>, Ref |-> <<>>, Exp |-> 0, Iat |-> 0]

\* githubUser
githubUserFields ==
    << <<<<"l", "o", "g", "i", "n">>, "Login", "string">>,
       <<<<"i", "d">>, "ID", "number">>,
       <<<<"t", "y", "p", "e">>, "Type", "string">> >>

ZeroUser == [Login |-> <<>>, ID |-> 0, Type |-> <<>>]

Range(f) == {f[i] : i \in DOMAIN f}

----------------------------------------------------------------------------
(* Values of the registry/auth package and of this package *)

\* an error value: its message, the message of the error it wraps (%w) and
\* the string formatted into it (%s)
Err(msg, wrapped, arg) == [msg |-> msg, wrapped |-> wrapped, arg |-> arg]
NoErr == Err("", "", <<>>)
ErrInvalidCredential == Err("ErrInvalidCredential", "", <<>>)
ErrAuthenticationFailure == Err("ErrAuthenticationFailure", "", <<>>)

\* the (*auth.Grant, error) pair a verifier returns
Grant(name) == [kind |-> "grant", name |-> name, realm |-> <<>>, err |-> NoErr]
Challenge(realm, e) == [kind |-> "challenge", name |-> <<>>, realm |-> realm, err |-> e]
NoResult == [kind |-> "none", name |-> <<>>, realm |-> <<>>, err |-> NoErr]

\* strconv.Quote, which the verb %q applies, on printable ASCII: the string in
\* double quotes, a backslash before every double quote and backslash
RECURSIVE Escape(_)
Escape(s) ==
    IF s = <<>> THEN <<>>
    ELSE (IF s[1] \in {"\"", "\\"} THEN <<"\\", s[1]>> ELSE <<s[1]>>) \o Escape(Tail(s))

Quote(s) == <<"\"">> \o Escape(s) \o <<"\"">>

\* a variant of SetHeaders: the cause is named in the header
SetHeaders_WithCause(ch) ==
    [name |-> <<"W", "W", "W", "-", "A", "u", "t", "h", "e", "n", "t", "i", "c", "a", "t", "e">>,
     value |-> <<"B", "e", "a", "r", "e", "r", " ", "r", "e", "a", "l", "m", "=">> \o Quote(ch.realm) \o <<",", "s", "e", "r", "v", "i", "c", "e", "=", "\"", "r", "e", "g", "i", "s", "t", "r", "y", "\"", ",", "e", "r", "r", "o", "r", "=">>
               \o <<ch.err.msg>>]

\* challenge.SetHeaders (lines 353-355): the header it sets on the response
SetHeaders(ch) ==
    [name |-> <<"W", "W", "W", "-", "A", "u", "t", "h", "e", "n", "t", "i", "c", "a", "t", "e">>,
     value |-> <<"B", "e", "a", "r", "e", "r", " ", "r", "e", "a", "l", "m", "=">> \o Quote(ch.realm) \o <<",", "s", "e", "r", "v", "i", "c", "e", "=", "\"", "r", "e", "g", "i", "s", "t", "r", "y", "\"">>]

\* challenge.Error (lines 357-359): the fixed text followed by the cause as
\* the verb %v prints it, that is the cause's own message, the message it
\* wraps and the string formatted into it
Error(ch) ==
    [text |-> <<"g", "i", "t", "h", "u", "b", " ", "a", "u", "t", "h", "e", "n", "t", "i", "c", "a", "t", "i", "o", "n", " ", "r", "e", "q", "u", "i", "r", "e", "d", ":", " ">>,
     cause |-> ch.err.msg, wrapped |-> ch.err.wrapped, arg |-> ch.err.arg]

\* the constants of access.go
githubAPIURL == <<"h", "t", "t", "p", "s", ":", "/", "/", "a", "p", "i", ".", "g", "i", "t", "h", "u", "b", ".", "c", "o", "m">>
githubUserEndpoint == <<"/", "u", "s", "e", "r">>
BearerPrefix == <<"B", "e", "a", "r", "e", "r", " ">>
TokenPrefix == <<"t", "o", "k", "e", "n", " ">>
AcceptHeader == <<"a", "p", "p", "l", "i", "c", "a", "t", "i", "o", "n", "/", "v", "n", "d", ".", "g", "i", "t", "h", "u", "b", "+", "j", "s", "o", "n">>

\* an option of the configuration map (an interface{}): its dynamic type and
\* its value, in the field of that type
Opt(type, str, bool, list) == [type |-> type, str |-> str, bool |-> bool, list |-> list]
Absent == Opt("absent", <<>>, FALSE, <<>>)
Str(x) == Opt("string", x, FALSE, <<>>)
Bool(b) == Opt("bool", <<>>, b, <<>>)
List(l) == Opt("list", <<>>, FALSE, l)
Number == Opt("int", <<>>, FALSE, <<>>)

\* the strings of a []interface{}: elements of another type are skipped
RECURSIVE StringsOf(_)
StringsOf(list) ==
    IF list = <<>> THEN <<>>
    ELSE (IF list[1].type = "string" THEN <<list[1].str>> ELSE <<>>)
         \o StringsOf(Tail(list))

\* a variant of newAccessController: an option of another type than the one
\* expected is an error
newAccessController_Strict(opts) ==
    IF \/ opts.realm.type # "string"
       \/ opts.api_url.type \notin {"absent", "string"}
       \/ opts.enable_oidc.type \notin {"absent", "bool"}
       \/ opts.oidc_audience.type \notin {"absent", "string"}
       \/ opts.allowed_orgs.type \notin {"absent", "list"}
       \/ opts.allowed_repos.type \notin {"absent", "list"}
    THEN [ok |-> FALSE, err |-> "\"realm\" must be set for github access controller"]
    ELSE [ok |-> TRUE,
          realm |-> opts.realm.str,
          githubAPIURL |->
              IF opts.api_url.str # <<>>
              THEN TrimRightSlash(opts.api_url.str) ELSE githubAPIURL,
          allowedOrgs |-> StringsOf(opts.allowed_orgs.list),
          allowedRepos |-> StringsOf(opts.allowed_repos.list),
          enableOIDC |-> opts.enable_oidc.bool,
          oidcAudience |-> opts.oidc_audience.str]

\* newAccessController: the controller, or the error when "realm" is no string
newAccessController(opts) ==
    IF opts.realm.type # "string"
    THEN [ok |-> FALSE, err |-> "\"realm\" must be set for github access controller"]
    ELSE [ok |-> TRUE,
          realm |-> opts.realm.str,
          githubAPIURL |->
              IF opts.api_url.type = "string" /\ opts.api_url.str # <<>>
              THEN TrimRightSlash(opts.api_url.str) ELSE githubAPIURL,
          allowedOrgs |->
              IF opts.allowed_orgs.type = "list"
              THEN StringsOf(opts.allowed_orgs.list) ELSE <<>>,
          allowedRepos |->
              IF opts.allowed_repos.type = "list"
              THEN StringsOf(opts.allowed_repos.list) ELSE <<>>,
          enableOIDC |->
              IF opts.enable_oidc.type = "bool" THEN opts.enable_oidc.bool ELSE FALSE,
          oidcAudience |->
              IF opts.oidc_audience.type = "string" /\ opts.oidc_audience.str # <<>>
              THEN opts.oidc_audience.str ELSE <<>>]

----------------------------------------------------------------------------
(* The claims (OIDC) verifier *)

\* a variant of decodeOIDCToken: a token without a signature segment is refused
decodeOIDCToken_ChecksSignature(tok) ==
    LET failed(msg) == [ok |-> FALSE, payload |-> ZeroPayload, err |-> msg]
        parse(parsed) ==
            IF ~parsed.ok THEN failed("failed to parse token payload")
            ELSE [ok |-> TRUE, payload |-> parsed.val, err |-> ""]
        decode(dec) ==
            IF ~dec.ok THEN failed("failed to decode token payload")
            ELSE parse(Unmarshal(dec.bytes, Range(oidcTokenPayloadFields), ZeroPayload))
        split(parts) ==
            IF Len(parts) # 3 THEN failed("invalid JWT token format")
            ELSE IF parts[3] = <<>> THEN failed("invalid JWT token format")
            ELSE decode(base64URLDecode(parts[2]))
    IN  split(Split(tok))

\* decodeOIDCToken: split, decode the middle segment, parse it
decodeOIDCToken(tok) ==
    LET failed(msg) == [ok |-> FALSE, payload |-> ZeroPayload, err |-> msg]
        parse(parsed) ==
            IF ~parsed.ok THEN failed("failed to parse token payload")
            ELSE [ok |-> TRUE, payload |-> parsed.val, err |-> ""]
        decode(dec) ==
            IF ~dec.ok THEN failed("failed to decode token payload")
            ELSE parse(Unmarshal(dec.bytes, Range(oidcTokenPayloadFields), ZeroPayload))
        split(parts) ==
            IF Len(parts) # 3 THEN failed("invalid JWT token format")
            ELSE decode(base64URLDecode(parts[2]))
    IN  split(Split(tok))

\* no token has been decoded
NotDecoded == [ok |-> FALSE, payload |-> ZeroPayload, err |-> "none"]

(* Variants of authenticateOIDC with one step changed, for the checks below *)

\* the grant names the subject of the token
authenticateOIDC_Subject(a, tok, t) ==
    LET verify(ok, err, payload) ==
            IF ~ok
            THEN Challenge(a.realm, Err("invalid OIDC token", err, <<>>))
            ELSE IF a.oidcAudience # <<>> /\ payload.Aud # a.oidcAudience
            THEN Challenge(a.realm, Err("invalid OIDC audience", "", <<>>))
            ELSE IF payload.Exp < t
            THEN Challenge(a.realm, Err("OIDC token expired", "", <<>>))
            ELSE IF Len(a.allowedRepos) > 0
                    /\ ~(\E i \in 1..Len(a.allowedRepos) :
                            payload.Repository = a.allowedRepos[i])
            THEN Challenge(a.realm, Err("repository %s not allowed", "", payload.Repository))
            ELSE Grant(payload.Sub)
        decoded(d) == verify(d.ok, d.err, d.payload)
    IN  decoded(decodeOIDCToken(tok))

\* the audience is not compared
authenticateOIDC_NoAudience(a, tok, t) ==
    LET verify(ok, err, payload) ==
            IF ~ok
            THEN Challenge(a.realm, Err("invalid OIDC token", err, <<>>))
            ELSE IF FALSE
            THEN Challenge(a.realm, Err("invalid OIDC audience", "", <<>>))
            ELSE IF payload.Exp < t
            THEN Challenge(a.realm, Err("OIDC token expired", "", <<>>))
            ELSE IF Len(a.allowedRepos) > 0
                    /\ ~(\E i \in 1..Len(a.allowedRepos) :
                            payload.Repository = a.allowedRepos[i])
            THEN Challenge(a.realm, Err("repository %s not allowed", "", payload.Repository))
            ELSE Grant(payload.Actor)
        decoded(d) == verify(d.ok, d.err, d.payload)
    IN  decoded(decodeOIDCToken(tok))

\* the expiry is tested before the audience
authenticateOIDC_ExpiryFirst(a, tok, t) ==
    LET verify(ok, err, payload) ==
            IF ~ok
            THEN Challenge(a.realm, Err("invalid OIDC token", err, <<>>))
            ELSE IF payload.Exp < t
            THEN Challenge(a.realm, Err("OIDC token expired", "", <<>>))
            ELSE IF a.oidcAudience # <<>> /\ payload.Aud # a.oidcAudience
            THEN Challenge(a.realm, Err("invalid OIDC audience", "", <<>>))
            ELSE IF Len(a.allowedRepos) > 0
                    /\ ~(\E i \in 1..Len(a.allowedRepos) :
                            payload.Repository = a.allowedRepos[i])
            THEN Challenge(a.realm, Err("repository %s not allowed", "", payload.Repository))
            ELSE Grant(payload.Actor)
        decoded(d) == verify(d.ok, d.err, d.payload)
    IN  decoded(decodeOIDCToken(tok))

\* the flag "allowed" starts out true: no repository is refused
authenticateOIDC_NoRepoCheck(a, tok, t) ==
    LET verify(ok, err, payload) ==
            IF ~ok
            THEN Challenge(a.realm, Err("invalid OIDC token", err, <<>>))
            ELSE IF a.oidcAudience # <<>> /\ payload.Aud # a.oidcAudience
            THEN Challenge(a.realm, Err("invalid OIDC audience", "", <<>>))
            ELSE IF payload.Exp < t
            THEN Challenge(a.realm, Err("OIDC token expired", "", <<>>))
            ELSE IF Len(a.allowedRepos) > 0 /\ FALSE
                    /\ ~(\E i \in 1..Len(a.allowedRepos) :
                            payload.Repository = a.allowedRepos[i])
            THEN Challenge(a.realm, Err("repository %s not allowed", "", payload.Repository))
            ELSE Grant(payload.Actor)
        decoded(d) == verify(d.ok, d.err, d.payload)
    IN  decoded(decodeOIDCToken(tok))

\* a variant of authenticateOIDC: the repository is checked before the expiry
authenticateOIDC_RepoFirst(a, tok, t) ==
    LET verify(ok, err, payload) ==
            IF ~ok
            THEN Challenge(a.realm, Err("invalid OIDC token", err, <<>>))
            ELSE IF a.oidcAudience # <<>> /\ payload.Aud # a.oidcAudience
            THEN Challenge(a.realm, Err("invalid OIDC audience", "", <<>>))
            ELSE IF Len(a.allowedRepos) > 0
                    /\ ~(\E i \in 1..Len(a.allowedRepos) :
                            payload.Repository = a.allowedRepos[i])
            THEN Challenge(a.realm, Err("repository %s not allowed", "", payload.Repository))
            ELSE IF payload.Exp < t
            THEN Challenge(a.realm, Err("OIDC token expired", "", <<>>))
            ELSE Grant(payload.Actor)
        decoded(d) == verify(d.ok, d.err, d.payload)
    IN  decoded(decodeOIDCToken(tok))

\* authenticateOIDC with time.Now().Unix() = t
authenticateOIDC(a, tok, t) ==
    LET verify(ok, err, payload) ==
            IF ~ok
            THEN Challenge(a.realm, Err("invalid OIDC token", err, <<>>))
            ELSE IF a.oidcAudience # <<>> /\ payload.Aud # a.oidcAudience
            THEN Challenge(a.realm, Err("invalid OIDC audience", "", <<>>))
            ELSE IF payload.Exp < t
            THEN Challenge(a.realm, Err("OIDC token expired", "", <<>>))
            ELSE IF Len(a.allowedRepos) > 0
                    /\ ~(\E i \in 1..Len(a.allowedRepos) :
                            payload.Repository = a.allowedRepos[i])
            THEN Challenge(a.realm, Err("repository %s not allowed", "", payload.Repository))
            ELSE Grant(payload.Actor)
        decoded(d) == verify(d.ok, d.err, d.payload)
    IN  decoded(decodeOIDCToken(tok))

----------------------------------------------------------------------------
(* Outbound requests *)

HexDigits == {"0", "1", "2", "3", "4", "5", "6", "7", "8", "9",
              "a", "b", "c", "d", "e", "f", "A", "B", "C", "D", "E", "F"}

\* http.NewRequestWithContext succeeds when url.Parse accepts the URL; of the
\* URLs the configurations here produce it rejects those with a "%" that does
\* not start a two-digit hexadecimal escape.
urlParseOK(u) ==
    \A i \in 1..Len(u) :
        u[i] = "%" => (i + 2 <= Len(u) /\ u[i + 1] \in HexDigits /\ u[i + 2] \in HexDigits)

\* what httpClient.Do produced for a request
Pending == [state |-> "pending", status |-> 0, body |-> <<>>, readable |-> FALSE]
TransportError == [state |-> "error", status |-> 0, body |-> <<>>, readable |-> FALSE]
Answer(status, body, readable) ==
    [state |-> "answered", status |-> status, body |-> body, readable |-> readable]

StatusOK == 200
StatusNoContent == 204

\* a variant of ProfileRequest: the token is forwarded under the scheme Bearer
ProfileRequest_Bearer(a, tok) ==
    [kind |-> "profile",
     url |-> a.githubAPIURL \o githubUserEndpoint,
     auth |-> BearerPrefix \o tok,
     accept |-> AcceptHeader,
     resp |-> Pending]

\* the request built by authenticateGitHub (lines 163-174)
ProfileRequest(a, tok) ==
    [kind |-> "profile",
     url |-> a.githubAPIURL \o githubUserEndpoint,
     auth |-> TokenPrefix \o tok,
     accept |-> AcceptHeader,
     resp |-> Pending]

\* the request built by checkOrgMembership for one organization (lines 285-292)
MemberRequest(a, tok, org, username) ==
    [kind |-> "member",
     url |-> a.githubAPIURL \o <<"/", "o", "r", "g", "s", "/">> \o org \o <<"/", "m", "e", "m", "b", "e", "r", "s", "/">> \o username,
     auth |-> TokenPrefix \o tok,
     accept |-> AcceptHeader,
     resp |-> Pending]

----------------------------------------------------------------------------
(* The remote (GitHub API) verifier, cut at the calls of httpClient.Do *)

\* checkOrgMembership, the loop from organization i on: the index of the next
\* organization whose request can be built, 0 when the loop runs out
RECURSIVE checkOrgMembership(_, _, _, _)
checkOrgMembership(a, tok, username, i) ==
    IF i > Len(a.allowedOrgs) THEN 0
    ELSE IF ~urlParseOK(MemberRequest(a, tok, a.allowedOrgs[i], username).url)
    THEN checkOrgMembership(a, tok, username, i + 1)
    ELSE i

\* the step of the loop that follows: a request in flight, or the verdict
MembershipFrom(a, tok, u, i, sent) ==
    LET next(k) ==
            IF k = 0
            THEN [pc |-> "done", user |-> u, orgIdx |-> 0, calls |-> sent,
                  result |-> Challenge(a.realm, ErrAuthenticationFailure)]
            ELSE [pc |-> "member", user |-> u, orgIdx |-> k,
                  calls |-> Append(sent, MemberRequest(a, tok, a.allowedOrgs[k], u.Login)),
                  result |-> NoResult]
    IN  next(checkOrgMembership(a, tok, u.Login, i))

\* authenticateGitHub up to httpClient.Do (lines 161-177)
authenticateGitHub(a, tok) ==
    LET send(apiReq) ==
            IF ~urlParseOK(apiReq.url)
            THEN [pc |-> "done", calls |-> <<>>,
                  result |-> Challenge(a.realm,
                                Err("failed to create request", "parse", apiReq.url))]
            ELSE [pc |-> "profile", calls |-> <<apiReq>>, result |-> NoResult]
    IN  send(ProfileRequest(a, tok))

\* a variant of authenticateGitHubResume: the grant names the account type
authenticateGitHubResume_Type(a, tok, resp, sent) ==
    LET failure == [pc |-> "done", user |-> ZeroUser, orgIdx |-> 0, calls |-> sent,
                    result |-> Challenge(a.realm, ErrAuthenticationFailure)]
        body(parsed) ==
            IF ~parsed.ok THEN failure
            ELSE IF Len(a.allowedOrgs) > 0
            THEN MembershipFrom(a, tok, parsed.val, 1, sent)
            ELSE [pc |-> "done", user |-> parsed.val, orgIdx |-> 0, calls |-> sent,
                  result |-> Grant(parsed.val.Type)]
    IN  IF resp.state = "error" THEN failure
        ELSE IF resp.status # StatusOK THEN failure
        ELSE IF ~resp.readable THEN failure
        ELSE body(Unmarshal(StrBytes(resp.body), Range(githubUserFields), ZeroUser))

\* a variant of authenticateGitHubResume: the status of the answer is not read
authenticateGitHubResume_AnyStatus(a, tok, resp, sent) ==
    LET failure == [pc |-> "done", user |-> ZeroUser, orgIdx |-> 0, calls |-> sent,
                    result |-> Challenge(a.realm, ErrAuthenticationFailure)]
        body(parsed) ==
            IF ~parsed.ok THEN failure
            ELSE IF Len(a.allowedOrgs) > 0
            THEN MembershipFrom(a, tok, parsed.val, 1, sent)
            ELSE [pc |-> "done", user |-> parsed.val, orgIdx |-> 0, calls |-> sent,
                  result |-> Grant(parsed.val.Login)]
    IN  IF resp.state = "error" THEN failure
        ELSE IF ~resp.readable THEN failure
        ELSE body(Unmarshal(StrBytes(resp.body), Range(githubUserFields), ZeroUser))

\* a variant of authenticateGitHubResume: the profile call is made again after
\* a first transport error
authenticateGitHubResume_Retry(a, tok, resp, sent) ==
    LET failure == [pc |-> "done", user |-> ZeroUser, orgIdx |-> 0, calls |-> sent,
                    result |-> Challenge(a.realm, ErrAuthenticationFailure)]
        again == [pc |-> "profile", user |-> ZeroUser, orgIdx |-> 0,
                  calls |-> Append(sent, ProfileRequest(a, tok)), result |-> NoResult]
        body(parsed) ==
            IF ~parsed.ok THEN failure
            ELSE IF Len(a.allowedOrgs) > 0
            THEN MembershipFrom(a, tok, parsed.val, 1, sent)
            ELSE [pc |-> "done", user |-> parsed.val, orgIdx |-> 0, calls |-> sent,
                  result |-> Grant(parsed.val.Login)]
    IN  IF resp.state = "error" THEN (IF Len(sent) = 1 THEN again ELSE failure)
        ELSE IF resp.status # StatusOK THEN failure
        ELSE IF ~resp.readable THEN failure
        ELSE body(Unmarshal(StrBytes(resp.body), Range(githubUserFields), ZeroUser))

\* a variant of authenticateGitHubResume: every status from 200 to 299 counts
\* as success
authenticateGitHubResume_Any2xx(a, tok, resp, sent) ==
    LET failure == [pc |-> "done", user |-> ZeroUser, orgIdx |-> 0, calls |-> sent,
                    result |-> Challenge(a.realm, ErrAuthenticationFailure)]
        body(parsed) ==
            IF ~parsed.ok THEN failure
            ELSE IF Len(a.allowedOrgs) > 0
            THEN MembershipFrom(a, tok, parsed.val, 1, sent)
            ELSE [pc |-> "done", user |-> parsed.val, orgIdx |-> 0, calls |-> sent,
                  result |-> Grant(parsed.val.Login)]
    IN  IF resp.state = "error" THEN failure
        ELSE IF resp.status \notin 200..299 THEN failure
        ELSE IF ~resp.readable THEN failure
        ELSE body(Unmarshal(StrBytes(resp.body), Range(githubUserFields), ZeroUser))

\* authenticateGitHub from the return of httpClient.Do (lines 178-229)
authenticateGitHubResume(a, tok, resp, sent) ==
    LET failure == [pc |-> "done", user |-> ZeroUser, orgIdx |-> 0, calls |-> sent,
                    result |-> Challenge(a.realm, ErrAuthenticationFailure)]
        body(parsed) ==
            IF ~parsed.ok THEN failure
            ELSE IF Len(a.allowedOrgs) > 0
            THEN MembershipFrom(a, tok, parsed.val, 1, sent)
            ELSE [pc |-> "done", user |-> parsed.val, orgIdx |-> 0, calls |-> sent,
                  result |-> Grant(parsed.val.Login)]
    IN  IF resp.state = "error" THEN failure
        ELSE IF resp.status # StatusOK THEN failure
        ELSE IF ~resp.readable THEN failure
        ELSE body(Unmarshal(StrBytes(resp.body), Range(githubUserFields), ZeroUser))

\* a variant of checkOrgMembershipResume: any answer confirms the membership
checkOrgMembershipResume_AnyAnswer(a, tok, u, i, resp, sent) ==
    IF resp.state = "answered"
    THEN [pc |-> "done", user |-> u, orgIdx |-> i, calls |-> sent,
          result |-> Grant(u.Login)]
    ELSE MembershipFrom(a, tok, u, i + 1, sent)

\* a variant of checkOrgMembershipResume: the loop asks the organizations that
\* are left even after one confirmed the membership
checkOrgMembershipResume_KeepsAsking(a, tok, u, i, resp, sent) ==
    IF /\ resp.state = "answered" /\ resp.status = StatusNoContent
       /\ checkOrgMembership(a, tok, u.Login, i + 1) = 0
    THEN [pc |-> "done", user |-> u, orgIdx |-> i, calls |-> sent,
          result |-> Grant(u.Login)]
    ELSE MembershipFrom(a, tok, u, i + 1, sent)

\* a variant of checkOrgMembershipResume: a transport error ends the loop
checkOrgMembershipResume_ErrorEnds(a, tok, u, i, resp, sent) ==
    IF resp.state = "answered" /\ resp.status = StatusNoContent
    THEN [pc |-> "done", user |-> u, orgIdx |-> i, calls |-> sent,
          result |-> Grant(u.Login)]
    ELSE IF resp.state = "error"
    THEN [pc |-> "done", user |-> u, orgIdx |-> 0, calls |-> sent,
          result |-> Challenge(a.realm, ErrAuthenticationFailure)]
    ELSE MembershipFrom(a, tok, u, i + 1, sent)

\* checkOrgMembership from the return of httpClient.Do for organization i
\* (lines 295-304), and the rest of authenticateGitHub (lines 215-228)
checkOrgMembershipResume(a, tok, u, i, resp, sent) ==
    IF resp.state = "answered" /\ resp.status = StatusNoContent
    THEN [pc |-> "done", user |-> u, orgIdx |-> i, calls |-> sent,
          result |-> Grant(u.Login)]
    ELSE MembershipFrom(a, tok, u, i + 1, sent)

----------------------------------------------------------------------------
(* Authorized *)

\* req.Header.Get("Authorization"): "" when the header is absent
HeaderGet(h) == IF h.present THEN h.value ELSE <<>>

\* a variant of ExtractToken: the scheme "bearer " is taken in lower case too
ExtractToken_AnyCase(h) ==
    LET extract(authHeader) ==
            IF authHeader = <<>> THEN [ok |-> FALSE, token |-> <<>>]
            ELSE IF HasPrefix(authHeader, BearerPrefix)
            THEN [ok |-> TrimPrefix(authHeader, BearerPrefix) # <<>>,
                  token |-> TrimPrefix(authHeader, BearerPrefix)]
            ELSE IF HasPrefix(authHeader, <<"b", "e", "a", "r", "e", "r", " ">>)
            THEN [ok |-> TrimPrefix(authHeader, <<"b", "e", "a", "r", "e", "r", " ">>) # <<>>,
                  token |-> TrimPrefix(authHeader, <<"b", "e", "a", "r", "e", "r", " ">>)]
            ELSE IF HasPrefix(authHeader, TokenPrefix)
            THEN [ok |-> TrimPrefix(authHeader, TokenPrefix) # <<>>,
                  token |-> TrimPrefix(authHeader, TokenPrefix)]
            ELSE [ok |-> FALSE, token |-> <<>>]
    IN  extract(HeaderGet(h))

\* the token of the Authorization header (lines 121-147)
ExtractToken(h) ==
    LET extract(authHeader) ==
            IF authHeader = <<>> THEN [ok |-> FALSE, token |-> <<>>]
            ELSE IF HasPrefix(authHeader, BearerPrefix)
            THEN [ok |-> TrimPrefix(authHeader, BearerPrefix) # <<>>,
                  token |-> TrimPrefix(authHeader, BearerPrefix)]
            ELSE IF HasPrefix(authHeader, TokenPrefix)
            THEN [ok |-> TrimPrefix(authHeader, TokenPrefix) # <<>>,
                  token |-> TrimPrefix(authHeader, TokenPrefix)]
            ELSE [ok |-> FALSE, token |-> <<>>]
    IN  extract(HeaderGet(h))

\* variants of AuthorizedSync: the GitHub API is asked even after the claims
\* verifier granted, and the failure of the claims verifier is returned
AuthorizedSync_AlwaysRemote(a, h, t) ==
    LET fallback(tok, claims, remote) ==
            [pc |-> remote.pc, token |-> tok, oidc |-> claims,
             calls |-> remote.calls, result |-> remote.result]
        verified(tok, claims) ==
            fallback(tok, claims, authenticateGitHub(a, tok))
        extracted(ex) ==
            IF ~ex.ok
            THEN [pc |-> "done", token |-> <<>>, oidc |-> NoResult, calls |-> <<>>,
                  result |-> Challenge(a.realm, ErrInvalidCredential)]
            ELSE IF a.enableOIDC
            THEN verified(ex.token, authenticateOIDC(a, ex.token, t))
            ELSE verified(ex.token, NoResult)
    IN  extracted(ExtractToken(h))

AuthorizedSync_NoFallback(a, h, t) ==
    LET fallback(tok, claims, remote) ==
            [pc |-> remote.pc, token |-> tok, oidc |-> claims,
             calls |-> remote.calls, result |-> remote.result]
        verified(tok, claims) ==
            IF claims.kind # "none"
            THEN [pc |-> "done", token |-> tok, oidc |-> claims, calls |-> <<>>,
                  result |-> claims]
            ELSE fallback(tok, claims, authenticateGitHub(a, tok))
        extracted(ex) ==
            IF ~ex.ok
            THEN [pc |-> "done", token |-> <<>>, oidc |-> NoResult, calls |-> <<>>,
                  result |-> Challenge(a.realm, ErrInvalidCredential)]
            ELSE IF a.enableOIDC
            THEN verified(ex.token, authenticateOIDC(a, ex.token, t))
            ELSE verified(ex.token, NoResult)
    IN  extracted(ExtractToken(h))

\* a variant of AuthorizedSync: without a credential the bare error is
\* returned, not a challenge
AuthorizedSync_BareError(a, h, t) ==
    LET fallback(tok, claims, remote) ==
            [pc |-> remote.pc, token |-> tok, oidc |-> claims,
             calls |-> remote.calls, result |-> remote.result]
        verified(tok, claims) ==
            IF claims.kind = "grant"
            THEN [pc |-> "done", token |-> tok, oidc |-> claims, calls |-> <<>>,
                  result |-> claims]
            ELSE fallback(tok, claims, authenticateGitHub(a, tok))
        extracted(ex) ==
            IF ~ex.ok
            THEN [pc |-> "done", token |-> <<>>, oidc |-> NoResult, calls |-> <<>>,
                  result |-> [kind |-> "error", name |-> <<>>, realm |-> <<>>,
                              err |-> ErrInvalidCredential]]
            ELSE IF a.enableOIDC
            THEN verified(ex.token, authenticateOIDC(a, ex.token, t))
            ELSE verified(ex.token, NoResult)
    IN  extracted(ExtractToken(h))

\* a variant of AuthorizedSync: the verifiers run on whatever was extracted,
\* an empty token included
AuthorizedSync_NoExtractionCheck(a, h, t) ==
    LET fallback(tok, claims, remote) ==
            [pc |-> remote.pc, token |-> tok, oidc |-> claims,
             calls |-> remote.calls, result |-> remote.result]
        verified(tok, claims) ==
            IF claims.kind = "grant"
            THEN [pc |-> "done", token |-> tok, oidc |-> claims, calls |-> <<>>,
                  result |-> claims]
            ELSE fallback(tok, claims, authenticateGitHub(a, tok))
        extracted(ex) ==
            IF a.enableOIDC
            THEN verified(ex.token, authenticateOIDC(a, ex.token, t))
            ELSE verified(ex.token, NoResult)
    IN  extracted(ExtractToken(h))

\* Authorized up to its return or its first call of httpClient.Do
AuthorizedSync(a, h, t) ==
    LET fallback(tok, claims, remote) ==
            [pc |-> remote.pc, token |-> tok, oidc |-> claims,
             calls |-> remote.calls, result |-> remote.result]
        verified(tok, claims) ==
            IF claims.kind = "grant"
            THEN [pc |-> "done", token |-> tok, oidc |-> claims, calls |-> <<>>,
                  result |-> claims]
            ELSE fallback(tok, claims, authenticateGitHub(a, tok))
        extracted(ex) ==
            IF ~ex.ok
            THEN [pc |-> "done", token |-> <<>>, oidc |-> NoResult, calls |-> <<>>,
                  result |-> Challenge(a.realm, ErrInvalidCredential)]
            ELSE IF a.enableOIDC
            THEN verified(ex.token, authenticateOIDC(a, ex.token, t))
            ELSE verified(ex.token, NoResult)
    IN  extracted(ExtractToken(h))

----------------------------------------------------------------------------
(* Inputs *)

MaxTime == 2                      \* the clock reads 1 .. MaxTime
Times == 1..MaxTime
ExpValues == 1..(MaxTime + 1)     \* before, at and after every clock value

Reqs == {1, 2}                    \* the request slots
Serial == {1}                     \* the slot served when requests come one at a time

\* configurations: every combination of the policy fields under realm "R" ...
CoreOptions ==
    [realm : {Str(<<"R">>)},
     api_url : {Absent},
     enable_oidc : {Bool(TRUE), Bool(FALSE)},
     oidc_audience : {Absent, Str(<<"a">>)},
     allowed_orgs : {Absent, List(<<Str(<<"o">>)>>), List(<<Str(<<"o">>), Str(<<"n">>)>>)},
     allowed_repos : {Absent, List(<<Str(<<"p">>)>>)}]

\* ... and one configuration with each option in turn absent, empty or of
\* another type, and one with every option but "realm" of another type
BaseOptions ==
    [realm |-> Str(<<"R">>), api_url |-> Absent, enable_oidc |-> Bool(TRUE),
     oidc_audience |-> Absent, allowed_orgs |-> Absent, allowed_repos |-> Absent]

OddOptions ==
    {[BaseOptions EXCEPT !.realm = v] : v \in {Absent, Number, Str(<<>>), Bool(TRUE), Str(<<"\"">>)}}
    \cup {[BaseOptions EXCEPT !.api_url = v] :
            v \in {Str(<<"h", "t", "t", "p", ":", "/", "/", "e", "/">>), Str(<<"%">>), Str(<<>>), Number}}
    \cup {[BaseOptions EXCEPT !.enable_oidc = v] : v \in {Absent, Str(<<"t", "r", "u", "e">>)}}
    \cup {[BaseOptions EXCEPT !.oidc_audience = v] : v \in {Str(<<>>), Number}}
    \cup {[BaseOptions EXCEPT !.allowed_orgs = v] :
            v \in {List(<<>>), List(<<Number, Str(<<"o">>)>>), Str(<<"o">>)}}
    \cup {[BaseOptions EXCEPT !.allowed_repos = v] :
            v \in {List(<<>>), List(<<Number, Str(<<"q">>)>>), Str(<<"p">>)}}
    \cup {[realm |-> Str(<<"R">>), api_url |-> Bool(TRUE), enable_oidc |-> Number,
            oidc_audience |-> List(<<>>), allowed_orgs |-> Number,
            allowed_repos |-> Bool(FALSE)]}

OptionsSet == CoreOptions \cup OddOptions

\* claims payloads, and the tokens the tests build from them (access_test.go
\* lines 310-312): header segment, encoded payload, signature segment
Payloads ==
    [Sub : {<<"s">>}, Aud : {<<"a">>, <<"b">>}, Repository : {<<"p">>, <<"q">>},
     Actor : {<<"u">>}, Workflow : {<<"w">>}, Ref : {<<>>}, Exp : ExpValues, Iat : {0}]

TokenOf(payload) ==
    <<"h", ".">> \o RawURLEncode(StrBytes(Marshal(oidcTokenPayloadFields, payload))) \o <<".", "g">>

ClaimsTokens == {TokenOf(p) : p \in Payloads}

\* a claims token whose payload has no "actor": the other fields are those of
\* a token that is valid under every configuration here
MissingActorToken ==
    <<"h", ".">>
    \o RawURLEncode(StrBytes(<<"{", "\"", "s", "u", "b", "\"", ":", "\"", "s", "\"", ",", "\"", "a", "u", "d", "\"", ":", "\"", "a", "\"", ",", "\"", "r", "e", "p", "o", "s", "i", "t", "o", "r", "y", "\"", ":", "\"", "p", "\"", ",", "\"", "e", "x", "p", "\"", ":">>
                             \o Itoa(MaxTime + 1) \o <<",", "\"", "i", "a", "t", "\"", ":", "0", "}">>))
    \o <<".", "g">>

\* an opaque token, and strings that are no claims token: two segments, four
\* segments, a middle segment that is no base64, one that is no JSON, and an
\* empty JSON object; and the claims token without an actor
OpaqueToken == <<"v", "a", "l", "i", "d">>
OtherTokens ==
    {OpaqueToken, MissingActorToken, <<"h", ".", "e", "3", "0">>, <<"h", ".", "e", "3", "0", ".", "g", ".", "x">>, <<"h", ".", "e", ".", "g">>, <<"h", ".", "!", "!", "!", "!", ".", "g">>, <<"h", ".", "a", "G", "k", ".", "g">>, <<"h", ".", "e", "3", "0", ".", "g">>}

Present(v) == [present |-> TRUE, value |-> v]
NoHeader == [present |-> FALSE, value |-> <<>>]

Headers ==
    {Present(BearerPrefix \o t) : t \in ClaimsTokens \cup OtherTokens}
    \cup {Present(TokenPrefix \o t) : t \in {OpaqueToken, TokenOf(CHOOSE p \in Payloads : TRUE)}}
    \cup {NoHeader, Present(<<>>), Present(BearerPrefix), Present(TokenPrefix),
          Present(<<"B", "a", "s", "i", "c", " ", "x", "y", "z">>), Present(<<"b", "e", "a", "r", "e", "r", " ", "a", "b", "c">>), Present(<<"B", "e", "a", "r", "e", "r">>),
          Present(<<"t", "o", "k", "e", "n", "a", "b", "c">>)}

\* what the identity API can answer
Alice == [Login |-> <<"a", "l", "i", "c", "e">>, ID |-> 1, Type |-> <<"U", "s", "e", "r">>]
Bodies == {Marshal(githubUserFields, Alice), <<"{", "}">>, <<"<", "h", "t", "m", "l", ">">>}

ProfileResponses ==
    {TransportError}
    \cup {Answer(st, b, TRUE) : st \in {200, 201, 401}, b \in Bodies}
    \cup {Answer(200, <<>>, FALSE)}
    \cup {Answer(StatusNoContent, Marshal(githubUserFields, Alice), TRUE)}

MemberResponses ==
    {TransportError} \cup {Answer(st, <<>>, TRUE) : st \in {204, 404, 200}}

----------------------------------------------------------------------------
(* The state machine *)

\* the registry builds the controller once, from its configuration
Init ==
    /\ options \in OptionsSet
    /\ ac = newAccessController(options)
    /\ pc = [r \in Reqs |-> "idle"]
    /\ header = [r \in Reqs |-> NoHeader]
    /\ now = [r \in Reqs |-> 0]
    /\ token = [r \in Reqs |-> <<>>]
    /\ oidc = [r \in Reqs |-> NoResult]
    /\ user = [r \in Reqs |-> ZeroUser]
    /\ orgIdx = [r \in Reqs |-> 0]
    /\ calls = [r \in Reqs |-> <<>>]
    /\ canceled = [r \in Reqs |-> FALSE]
    /\ result = [r \in Reqs |-> NoResult]
    /\ issued = ZeroPayload
    /\ wire = <<>>
    /\ received = NotDecoded

\* a variant of Authorized: a request whose claims verification failed
\* switches the claims verifier off for the requests after it
Authorized_DisablesOIDC(r, h, t) ==
    /\ ac.ok
    /\ pc[r] = "idle"
    /\ \E step \in {AuthorizedSync(ac, h, t)} :
           /\ pc' = [pc EXCEPT ![r] = step.pc]
           /\ token' = [token EXCEPT ![r] = step.token]
           /\ oidc' = [oidc EXCEPT ![r] = step.oidc]
           /\ calls' = [calls EXCEPT ![r] = step.calls]
           /\ result' = [result EXCEPT ![r] = step.result]
           /\ ac' = IF step.oidc.kind = "challenge"
                    THEN [ac EXCEPT !.enableOIDC = FALSE] ELSE ac
    /\ header' = [header EXCEPT ![r] = h]
    /\ now' = [now EXCEPT ![r] = t]
    /\ UNCHANGED <<issued, wire, received, options, user, orgIdx, canceled>>

\* a request with Authorization header h arrives and Authorized runs until it
\* returns or waits for the identity API; its clock reads t
Authorized(r, h, t) ==
    /\ ac.ok
    /\ pc[r] = "idle"
    /\ \E step \in {AuthorizedSync(ac, h, t)} :
           /\ pc' = [pc EXCEPT ![r] = step.pc]
           /\ token' = [token EXCEPT ![r] = step.token]
           /\ oidc' = [oidc EXCEPT ![r] = step.oidc]
           /\ calls' = [calls EXCEPT ![r] = step.calls]
           /\ result' = [result EXCEPT ![r] = step.result]
    /\ header' = [header EXCEPT ![r] = h]
    /\ now' = [now EXCEPT ![r] = t]
    /\ UNCHANGED <<issued, wire, received, options, ac, user, orgIdx, canceled>>

\* a variant of Delivered: the request is built without the request context
Delivered_NoContext(r, resp) == resp \in ProfileResponses \cup MemberResponses

\* the response the request context lets httpClient.Do return: an error once
\* the context is canceled
Delivered(r, resp) == canceled[r] => resp.state = "error"

Answered(sent, resp) == [sent EXCEPT ![Len(sent)].resp = resp]

\* a variant of ProfileResponse: the token is kept in a field that the
\* requests being served share
ProfileResponse_SharedToken(r, resp) ==
    /\ pc[r] = "profile"
    /\ Delivered(r, resp)
    /\ \E q \in Reqs :
        /\ q # r => pc[q] # "idle"
        /\ (\A p \in Reqs \ {r} : pc[p] = "idle") => q = r
        /\ \E step \in {authenticateGitHubResume(ac, token[q], resp, Answered(calls[r], resp))} :
               /\ pc' = [pc EXCEPT ![r] = step.pc]
               /\ user' = [user EXCEPT ![r] = step.user]
               /\ orgIdx' = [orgIdx EXCEPT ![r] = step.orgIdx]
               /\ calls' = [calls EXCEPT ![r] = step.calls]
               /\ result' = [result EXCEPT ![r] = step.result]
    /\ UNCHANGED <<issued, wire, received, options, ac, header, now, token, oidc, canceled>>

\* httpClient.Do returns for the profile call and authenticateGitHub goes on
ProfileResponse(r, resp) ==
    /\ pc[r] = "profile"
    /\ Delivered(r, resp)
    /\ \E step \in {authenticateGitHubResume(ac, token[r], resp, Answered(calls[r], resp))} :
           /\ pc' = [pc EXCEPT ![r] = step.pc]
           /\ user' = [user EXCEPT ![r] = step.user]
           /\ orgIdx' = [orgIdx EXCEPT ![r] = step.orgIdx]
           /\ calls' = [calls EXCEPT ![r] = step.calls]
           /\ result' = [result EXCEPT ![r] = step.result]
    /\ UNCHANGED <<issued, wire, received, options, ac, header, now, token, oidc, canceled>>

\* httpClient.Do returns for a membership call and checkOrgMembership goes on
MemberResponse(r, resp) ==
    /\ pc[r] = "member"
    /\ Delivered(r, resp)
    /\ \E step \in {checkOrgMembershipResume(ac, token[r], user[r], orgIdx[r], resp,
                                             Answered(calls[r], resp))} :
           /\ pc' = [pc EXCEPT ![r] = step.pc]
           /\ user' = [user EXCEPT ![r] = step.user]
           /\ orgIdx' = [orgIdx EXCEPT ![r] = step.orgIdx]
           /\ calls' = [calls EXCEPT ![r] = step.calls]
           /\ result' = [result EXCEPT ![r] = step.result]
    /\ UNCHANGED <<issued, wire, received, options, ac, header, now, token, oidc, canceled>>

\* the client goes away while a call to the identity API is in flight
Cancel(r) ==
    /\ pc[r] \in {"profile", "member"}
    /\ ~canceled[r]
    /\ canceled' = [canceled EXCEPT ![r] = TRUE]
    /\ UNCHANGED <<issued, wire, received, options, ac, pc, header, now, token, oidc, user, orgIdx, calls, result>>

\* the response is written and the slot serves the next request
Return(r) ==
    /\ pc[r] = "done"
    /\ pc' = [pc EXCEPT ![r] = "idle"]
    /\ header' = [header EXCEPT ![r] = NoHeader]
    /\ now' = [now EXCEPT ![r] = 0]
    /\ token' = [token EXCEPT ![r] = <<>>]
    /\ oidc' = [oidc EXCEPT ![r] = NoResult]
    /\ user' = [user EXCEPT ![r] = ZeroUser]
    /\ orgIdx' = [orgIdx EXCEPT ![r] = 0]
    /\ calls' = [calls EXCEPT ![r] = <<>>]
    /\ canceled' = [canceled EXCEPT ![r] = FALSE]
    /\ result' = [result EXCEPT ![r] = NoResult]
    /\ UNCHANGED <<issued, wire, received, options, ac>>

Next ==
    \E r \in Serial :
        \/ \E h \in Headers, t \in Times : Authorized(r, h, t)
        \/ \E resp \in ProfileResponses : ProfileResponse(r, resp)
        \/ \E resp \in MemberResponses : MemberResponse(r, resp)
        \/ Cancel(r)
        \/ Return(r)

Spec == Init /\ [][Next]_vars


\* the clock reads MaxTime: tokens expire before, at and after it
NextLive ==
    \E r \in Serial :
        \/ \E h \in Headers : Authorized(r, h, MaxTime)
        \/ \E resp \in ProfileResponses : ProfileResponse(r, resp)
        \/ \E resp \in MemberResponses : MemberResponse(r, resp)
        \/ Cancel(r)
        \/ Return(r)

\* httpClient.Do returns: the client is built with a timeout of ten seconds
\* (lines 78-80), so a call in flight is answered or fails
SpecLive ==
    /\ Init
    /\ [][NextLive]_vars
    /\ \A r \in Serial :
        /\ WF_vars(\E resp \in ProfileResponses : ProfileResponse(r, resp))
        /\ WF_vars(\E resp \in MemberResponses : MemberResponse(r, resp))


\* requests served at the same time, each in its own goroutine, by the one
\* controller: two slots, under two configurations and with four credentials
ConcOptions ==
    {[realm |-> Str(<<"R">>), api_url |-> Absent, enable_oidc |-> Bool(TRUE),
      oidc_audience |-> Str(<<"a">>),
      allowed_orgs |-> List(<<Str(<<"o">>), Str(<<"n">>)>>),
      allowed_repos |-> List(<<Str(<<"p">>)>>)],
     [realm |-> Str(<<"R">>), api_url |-> Absent, enable_oidc |-> Bool(FALSE),
      oidc_audience |-> Absent, allowed_orgs |-> Absent, allowed_repos |-> Absent]}

ConcPayload(aud) ==
    [Sub |-> <<"s">>, Aud |-> aud, Repository |-> <<"p">>, Actor |-> <<"u">>,
     Workflow |-> <<"w">>, Ref |-> <<>>, Exp |-> MaxTime + 1, Iat |-> 0]

ConcHeaders ==
    {Present(BearerPrefix \o TokenOf(ConcPayload(<<"a">>))),
     Present(BearerPrefix \o TokenOf(ConcPayload(<<"b">>))),
     Present(TokenPrefix \o OpaqueToken),
     Present(BearerPrefix \o OpaqueToken),
     Present(TokenPrefix \o TokenOf(ConcPayload(<<"b">>))),
     NoHeader}

ConcProfileResponses ==
    {TransportError, Answer(StatusOK, Marshal(githubUserFields, Alice), TRUE),
     Answer(401, <<>>, TRUE)}

ConcMemberResponses ==
    {TransportError, Answer(StatusNoContent, <<>>, TRUE), Answer(404, <<>>, TRUE)}

InitConc == Init /\ options \in ConcOptions

NextConc ==
    \E r \in Reqs :
        \/ \E h \in ConcHeaders : Authorized(r, h, MaxTime)
        \/ \E resp \in ConcProfileResponses : ProfileResponse(r, resp)
        \/ \E resp \in ConcMemberResponses : MemberResponse(r, resp)
        \/ Cancel(r)
        \/ Return(r)

SpecConc == InitConc /\ [][NextConc]_vars


\* tokens issued and decoded, as TestDecodeOIDCToken does (access_test.go
\* lines 234-268): payloads whose JSON has every length modulo 3, so that the
\* encoded segment needs two, one and no padding characters, and whose
\* encoding uses both URL-safe characters
RoundPayloads ==
    [Sub : {<<>>, <<"~">>, <<"?", "~">>, <<"r", ":", "o", "/", "r">>},
     Aud : {<<>>, <<"a", "?">>},
     Repository : {<<"o", "/", "r">>},
     Actor : {<<"u">>, <<"~", "~", "~">>},
     Workflow : {<<>>, <<"C", "I">>},
     Ref : {<<>>},
     Exp : {0 - 1, 0, 7, 1234567890},
     Iat : {0, 10}]

InitRound == Init /\ options = BaseOptions

\* a token is issued for payload p
Encode(p) ==
    /\ wire = <<>>
    /\ issued' = p
    /\ wire' = TokenOf(p)
    /\ UNCHANGED <<received, options, ac, pc, header, now, token, oidc, user, orgIdx,
                   calls, canceled, result>>

\* the verifier decodes the token it is handed
Decode ==
    /\ wire # <<>>
    /\ received = NotDecoded
    /\ received' = decodeOIDCToken(wire)
    /\ UNCHANGED <<issued, wire, options, ac, pc, header, now, token, oidc, user, orgIdx,
                   calls, canceled, result>>

NextRound ==
    \/ \E p \in RoundPayloads : Encode(p)
    \/ Decode

SpecRound == InitRound /\ [][NextRound]_vars


\* tokens that differ in their first and third segments only: two requests
\* under configurations with the claims verifier enabled, the middle segment
\* a valid payload, a payload with another audience, the empty object or no
\* base64, the outer segments empty or not
SegOptions ==
    {[BaseOptions EXCEPT !.oidc_audience = Str(<<"a">>),
                         !.allowed_repos = List(<<Str(<<"p">>)>>)],
     BaseOptions}

SegMiddles ==
    {Split(TokenOf(ConcPayload(<<"a">>)))[2], Split(TokenOf(ConcPayload(<<"b">>)))[2],
     <<"e", "3", "0">>, <<"!", "!", "!", "!">>}

SegOuter == {<<>>, <<"h">>, <<"s", "i", "g">>}

SegHeaders ==
    {Present(BearerPrefix \o s1 \o <<".">> \o s2 \o <<".">> \o s3) :
        s1 \in SegOuter, s2 \in SegMiddles, s3 \in SegOuter}

InitSeg == Init /\ options \in SegOptions

NextSeg ==
    \E r \in Reqs :
        \/ \E h \in SegHeaders : Authorized(r, h, MaxTime)
        \/ ProfileResponse(r, TransportError)
        \/ Return(r)

SpecSeg == InitSeg /\ [][NextSeg]_vars

----------------------------------------------------------------------------
(* What a request carried, read off the inputs *)

Sent(r) == pc[r] # "idle"

\* the headers that carry a claims token, with the payload the token encodes
TokenTable ==
    {[h |-> Present(pre \o TokenOf(p)), p |-> p] :
        pre \in {BearerPrefix, TokenPrefix}, p \in Payloads}
PayloadsOf(h) == {e.p : e \in {x \in TokenTable : x.h = h}}

\* the headers that carry a credential, with the credential
CredentialTable ==
    {[h |-> Present(pre \o t), tok |-> t] :
        pre \in {BearerPrefix, TokenPrefix}, t \in ClaimsTokens \cup OtherTokens}
CredentialsOf(h) == {e.tok : e \in {x \in CredentialTable : x.h = h}}

\* the profile bodies the identity API sends, with the login each one gives
ProfileTable ==
    {[body |-> Marshal(githubUserFields, Alice), login |-> Alice.Login],
     [body |-> <<"{", "}">>, login |-> <<>>]}

AudienceOK(p) == ac.oidcAudience = <<>> \/ p.Aud = ac.oidcAudience
RepositoryOK(p) == ac.allowedRepos = <<>> \/ p.Repository \in Range(ac.allowedRepos)

AudienceMismatch == Challenge(ac.realm, Err("invalid OIDC audience", "", <<>>))
TokenExpired == Challenge(ac.realm, Err("OIDC token expired", "", <<>>))
RepositoryNotAllowed(repo) ==
    Challenge(ac.realm, Err("repository %s not allowed", "", repo))

----------------------------------------------------------------------------
(* Properties *)

\* C1: with claims verification enabled, a request carrying a well-formed
\* claims token that expires after the current time, whose audience matches
\* the expected audience (or none is expected) and whose repository is allowed
\* (or no list is configured) ends with a Grant naming the payload's actor.
C1_ValidClaimsTokenGrantsActor ==
    \A r \in Reqs : \A p \in PayloadsOf(header[r]) :
        (Sent(r) /\ ac.enableOIDC /\ p.Exp > now[r] /\ AudienceOK(p) /\ RepositoryOK(p))
            => (pc[r] = "done" /\ result[r] = Grant(p.Actor))

C1_Witness ==
    \E r \in Reqs : \E p \in PayloadsOf(header[r]) :
        /\ Sent(r) /\ ac.enableOIDC
        /\ ac.oidcAudience # <<>> /\ ac.allowedRepos # <<>>
        /\ p.Exp > now[r] /\ AudienceOK(p) /\ RepositoryOK(p)
        /\ p.Actor # p.Sub
        /\ result[r] = Grant(p.Actor)

\* C2: with claims verification enabled, a claims token whose expiresAt is
\* less than or equal to the current time is refused by the claims verifier
\* as expired, its other fields being valid.
C2_ExpiredTokenFails ==
    \A r \in Reqs : \A p \in PayloadsOf(header[r]) :
        (Sent(r) /\ ac.enableOIDC /\ p.Exp <= now[r] /\ AudienceOK(p) /\ RepositoryOK(p))
            => (oidc[r] = TokenExpired /\ result[r].kind # "grant")

\* C3 as stated: with claims verification enabled and an expected audience,
\* no request carrying a claims token with another audience ends with a Grant.
C3_NoGrantOnAudienceMismatch ==
    \A r \in Reqs : \A p \in PayloadsOf(header[r]) :
        (Sent(r) /\ ac.enableOIDC /\ ac.oidcAudience # <<>> /\ p.Aud # ac.oidcAudience)
            => result[r].kind # "grant"

\* C3 as amended: for such a token the claims verifier fails with the audience
\* error, and a Grant is returned only when the GitHub API answered the
\* profile call for the same credential with 200; it names the profile's login.
C3_AudienceMismatchGrantOnlyFromRemote ==
    \A r \in Reqs : \A p \in PayloadsOf(header[r]) :
        (Sent(r) /\ ac.enableOIDC /\ ac.oidcAudience # <<>> /\ p.Aud # ac.oidcAudience)
            => /\ oidc[r] = AudienceMismatch
               /\ result[r].kind = "grant" =>
                    /\ calls[r] # <<>>
                    /\ calls[r][1].kind = "profile"
                    /\ calls[r][1].auth = TokenPrefix \o TokenOf(p)
                    /\ calls[r][1].resp.state = "answered"
                    /\ calls[r][1].resp.status = StatusOK
                    /\ result[r] = Grant(user[r].Login)

C3_Witness ==
    \E r \in Reqs : \E p \in PayloadsOf(header[r]) :
        /\ Sent(r) /\ ac.enableOIDC /\ ac.oidcAudience # <<>> /\ p.Aud # ac.oidcAudience
        /\ p.Exp > now[r] /\ RepositoryOK(p)
        /\ oidc[r] = AudienceMismatch
        /\ result[r].kind = "grant"

\* C4: with allowed organizations configured, a Grant is returned only after
\* the membership call for some configured organization was answered 204,
\* whichever verifier accepted the credential.
C4_GrantOnlyForOrgMembers ==
    \A r \in Reqs :
        (Sent(r) /\ ac.allowedOrgs # <<>> /\ result[r].kind = "grant")
            => \E i \in 1..Len(calls[r]) :
                    /\ calls[r][i].kind = "member"
                    /\ calls[r][i].resp.state = "answered"
                    /\ calls[r][i].resp.status = StatusNoContent

\* C5: the claims verifier fails with the audience error for every claims
\* token whose audience differs from a non-empty expected audience, and with
\* no expected audience it never fails with the audience error.
C5_AudienceMismatchRejected ==
    \A r \in Reqs :
        (Sent(r) /\ ac.enableOIDC)
            => /\ \A p \in PayloadsOf(header[r]) :
                    (ac.oidcAudience # <<>> /\ p.Aud # ac.oidcAudience)
                        => oidc[r] = AudienceMismatch
               /\ ac.oidcAudience = <<>> => oidc[r].err.msg # "invalid OIDC audience"

C5_Witness ==
    \E r \in Reqs : \E p \in PayloadsOf(header[r]) :
        /\ Sent(r) /\ ac.enableOIDC
        /\ ac.oidcAudience # <<>> /\ p.Aud # ac.oidcAudience
        /\ p.Exp < now[r]
        /\ oidc[r] = AudienceMismatch

C7_CredentialExtraction ==
    \A r \in Reqs :
        Sent(r) =>
            IF CredentialsOf(header[r]) # {}
            THEN /\ \A t \in CredentialsOf(header[r]) : token[r] = t
                 /\ result[r] # Challenge(ac.realm, ErrInvalidCredential)
            ELSE /\ pc[r] = "done"
                 /\ token[r] = <<>>
                 /\ result[r] = Challenge(ac.realm, ErrInvalidCredential)

C7_Witness ==
    \E r \in Reqs :
        /\ Sent(r)
        /\ header[r] = Present(TokenPrefix \o OpaqueToken)
        /\ token[r] = OpaqueToken
        /\ calls[r] # <<>>

\* C8: when claims verification is enabled and the claims verifier grants,
\* Authorized returns that Grant at once and no request goes to the GitHub API.
C8_ClaimsGrantWithoutRemoteCall ==
    \A r \in Reqs :
        (Sent(r) /\ ac.enableOIDC /\ oidc[r].kind = "grant")
            => (pc[r] = "done" /\ result[r] = oidc[r] /\ calls[r] = <<>>)

C8_Witness ==
    \E r \in Reqs :
        /\ Sent(r) /\ ac.enableOIDC /\ oidc[r].kind = "grant"
        /\ PayloadsOf(header[r]) # {}
        /\ pc[r] = "done"

\* C9: when a credential was extracted and the claims verifier is disabled or
\* failed, the GitHub verifier runs and Authorized returns its result: the
\* Grant for the profile's login, or a Challenge with the configured realm
\* whose cause is the GitHub verifier's, never the claims verifier's.
C9_FallbackReturnsRemoteResult ==
    \A r \in Reqs :
        (Sent(r) /\ CredentialsOf(header[r]) # {} /\ oidc[r].kind # "grant")
            => /\ \/ calls[r] # <<>> /\ calls[r][1].kind = "profile"
                  \/ pc[r] = "done" /\ result[r].err.msg = "failed to create request"
               /\ ~ac.enableOIDC <=> oidc[r] = NoResult
               /\ pc[r] = "done" =>
                    /\ result[r] # oidc[r]
                    /\ \/ /\ result[r] = Grant(user[r].Login)
                          /\ calls[r][1].resp.state = "answered"
                          /\ calls[r][1].resp.status = StatusOK
                       \/ /\ result[r].kind = "challenge"
                          /\ result[r].realm = ac.realm
                          /\ result[r].err.msg \in
                                {"ErrAuthenticationFailure", "failed to create request"}

C9_Witness ==
    \E r \in Reqs :
        /\ Sent(r) /\ ac.enableOIDC
        /\ oidc[r] = TokenExpired
        /\ pc[r] = "done"
        /\ result[r] = Challenge(ac.realm, ErrAuthenticationFailure)

\* C10: when the GitHub API answers the profile call with 200 and a profile
\* body and no organizations are configured, Authorized returns a Grant naming
\* the profile's login.
C10_ProfileLoginGranted ==
    \A r \in Reqs : \A e \in ProfileTable :
        (/\ Sent(r)
         /\ ac.allowedOrgs = <<>>
         /\ calls[r] # <<>>
         /\ calls[r][1].resp = Answer(StatusOK, e.body, TRUE))
            => (pc[r] = "done" /\ result[r] = Grant(e.login))

C10_Witness ==
    \E r \in Reqs :
        /\ Sent(r)
        /\ ac.allowedOrgs = <<>>
        /\ calls[r] # <<>>
        /\ calls[r][1].resp = Answer(StatusOK, Marshal(githubUserFields, Alice), TRUE)
        /\ result[r] = Grant(Alice.Login)


\* C11: when the profile call fails in transport or is answered with a status
\* outside 200..299, Authorized is done with a Challenge whose cause is the
\* authentication failure, and the profile call is the only call it made.
C11_ProfileFailureRejected ==
    \A r \in Reqs :
        (/\ Sent(r)
         /\ calls[r] # <<>>
         /\ \/ calls[r][1].resp.state = "error"
            \/ /\ calls[r][1].resp.state = "answered"
               /\ calls[r][1].resp.status \notin 200..299)
            => /\ pc[r] = "done"
               /\ result[r] = Challenge(ac.realm, ErrAuthenticationFailure)
               /\ Len(calls[r]) = 1

C11_Witness ==
    \E r \in Reqs :
        /\ Sent(r)
        /\ ac.allowedOrgs # <<>>
        /\ calls[r] # <<>>
        /\ calls[r][1].resp = Answer(401, Marshal(githubUserFields, Alice), TRUE)
        /\ result[r] = Challenge(ac.realm, ErrAuthenticationFailure)

\* the membership calls of request r that were answered 204
Confirmed(r) ==
    {i \in 2..Len(calls[r]) :
        /\ calls[r][i].kind = "member"
        /\ calls[r][i].resp.state = "answered"
        /\ calls[r][i].resp.status = StatusNoContent}

\* C12: with allowed organizations and a profile call answered 200 with a
\* profile, a 204 answer of the membership endpoint of a configured
\* organization ends Authorized with a Grant for the profile's login; when
\* Authorized is done and no membership call was answered 204, every
\* configured organization was asked, in order, and the result is a Challenge
\* with the authentication failure.
C12_OrgMembershipDecides ==
    \A r \in Reqs : \A e \in ProfileTable :
        (/\ Sent(r)
         /\ ac.allowedOrgs # <<>>
         /\ calls[r] # <<>>
         /\ calls[r][1].resp = Answer(StatusOK, e.body, TRUE))
            => /\ \A i \in 2..Len(calls[r]) :
                    calls[r][i] =
                        [MemberRequest(ac, token[r], ac.allowedOrgs[i - 1], e.login)
                            EXCEPT !.resp = calls[r][i].resp]
               /\ Confirmed(r) # {} =>
                    /\ pc[r] = "done"
                    /\ result[r] = Grant(e.login)
                    /\ Confirmed(r) = {Len(calls[r])}
               /\ (pc[r] = "done" /\ Confirmed(r) = {}) =>
                    /\ result[r] = Challenge(ac.realm, ErrAuthenticationFailure)
                    /\ Len(calls[r]) = 1 + Len(ac.allowedOrgs)

C12_Witness ==
    \E r \in Reqs :
        /\ Sent(r)
        /\ Len(ac.allowedOrgs) = 2
        /\ Len(calls[r]) = 3
        /\ calls[r][2].resp = Answer(404, <<>>, TRUE)
        /\ calls[r][3].resp = Answer(StatusNoContent, <<>>, TRUE)
        /\ result[r] = Grant(Alice.Login)


\* what Authorized has returned for request r is a Grant or a Challenge with
\* the configured realm and a cause, and the claims verifier's failure is such
\* a Challenge too
Returned(r) ==
    /\ pc[r] = "done" =>
        \/ /\ result[r].kind = "grant"
           /\ result[r] = Grant(result[r].name)
        \/ /\ result[r].kind = "challenge"
           /\ result[r].err # NoErr
           /\ result[r] = Challenge(ac.realm, result[r].err)
    /\ (Sent(r) /\ pc[r] # "done") => result[r] = NoResult
    /\ (Sent(r) /\ oidc[r].kind \notin {"none", "grant"}) =>
        /\ oidc[r].err # NoErr
        /\ oidc[r] = Challenge(ac.realm, oidc[r].err)

\* C13: every call of Authorized ends, and it ends with exactly one of a Grant
\* and a Challenge; every failure is a Challenge carrying the configured realm.
C13_EndsWithGrantOrChallenge ==
    /\ [](\A r \in Reqs : Returned(r))
    /\ \A r \in Serial : (pc[r] \in {"profile", "member"}) ~> (pc[r] = "done")

C13_Witness ==
    \E r \in Reqs :
        /\ pc[r] = "done"
        /\ Len(calls[r]) = 3
        /\ oidc[r] = RepositoryNotAllowed(<<"q">>)
        /\ result[r] = Challenge(ac.realm, ErrAuthenticationFailure)

\* the calls of request r that httpClient.Do has not returned from
InFlight(r) == {i \in 1..Len(calls[r]) : calls[r][i].resp = Pending}

\* only the last call can be in flight, and it is while Authorized waits
CallsSettled(r) ==
    /\ pc[r] \in {"profile", "member"} => InFlight(r) = {Len(calls[r])}
    /\ pc[r] \notin {"profile", "member"} => InFlight(r) = {}
    /\ (pc[r] = "done" /\ canceled[r]) =>
            result[r] = Challenge(ac.realm, ErrAuthenticationFailure)

\* the call in flight when the request is canceled ends with an error
AbortsWhenCanceled(r) ==
    (canceled[r] /\ pc[r] \in {"profile", "member"} /\ calls'[r] # calls[r])
        => calls'[r][Len(calls[r])].resp = TransportError

\* C14: a call in flight when the inbound request is canceled ends with an
\* error, the canceled Authorized returns, and once Authorized has returned
\* none of its calls is in flight.
C14_CancellationAbortsCalls ==
    /\ [](\A r \in Reqs : CallsSettled(r))
    /\ [][\A r \in Reqs : AbortsWhenCanceled(r)]_vars
    /\ \A r \in Serial : canceled[r] ~> (pc[r] = "done")

C14_Witness ==
    \E r \in Reqs :
        /\ canceled[r]
        /\ pc[r] = "done"
        /\ Len(calls[r]) = 3
        /\ calls[r][2].resp = Answer(404, <<>>, TRUE)
        /\ calls[r][3].resp = TransportError

\* C15: for every failing call the header SetHeaders renders is
\* WWW-Authenticate: Bearer realm="<realm>",service="registry" with the
\* configured realm (quoted as %q quotes it), whatever the cause; so two
\* failing calls under one configuration render the same header.
C15_ChallengeHeaderSameForAllCauses ==
    \A r \in Reqs :
        LET expected == [name |-> <<"W", "W", "W", "-", "A", "u", "t", "h", "e", "n", "t", "i", "c", "a", "t", "e">>,
                         value |-> <<"B", "e", "a", "r", "e", "r", " ", "r", "e", "a", "l", "m", "=", "\"">> \o Escape(ac.realm)
                                   \o <<"\"", ",", "s", "e", "r", "v", "i", "c", "e", "=", "\"", "r", "e", "g", "i", "s", "t", "r", "y", "\"">>]
        IN  /\ (pc[r] = "done" /\ result[r].kind = "challenge")
                    => SetHeaders(result[r]) = expected
            /\ (Sent(r) /\ oidc[r].kind = "challenge")
                    => SetHeaders(oidc[r]) = expected

C15_Witness ==
    \E r \in Reqs :
        /\ pc[r] = "done"
        /\ ac.realm = <<"R">>
        /\ oidc[r] = TokenExpired
        /\ result[r] = Challenge(ac.realm, ErrAuthenticationFailure)
        /\ SetHeaders(result[r]).value = <<"B", "e", "a", "r", "e", "r", " ", "r", "e", "a", "l", "m", "=", "\"", "R", "\"", ",", "s", "e", "r", "v", "i", "c", "e", "=", "\"", "r", "e", "g", "i", "s", "t", "r", "y", "\"">>
        /\ SetHeaders(Challenge(ac.realm, ErrInvalidCredential)) = SetHeaders(result[r])

\* C16: the message of a returned Challenge is the same for every cause of
\* failure: it is the message of the Challenge for a missing credential under
\* the same configuration, and names no cause of its own.
C16_MessageSameForAllCauses ==
    \A r \in Reqs :
        (pc[r] = "done" /\ result[r].kind = "challenge")
            => /\ Error(result[r]) = Error(Challenge(ac.realm, ErrInvalidCredential))
               /\ Error(result[r]).wrapped = ""
               /\ Error(result[r]).arg = <<>>

\* C17: newAccessController fails, and there is no controller to serve
\* requests, whenever the option "realm" is absent, is no string or is the
\* empty string.
C17_ConstructionRejectsBadRealm ==
    (options.realm.type # "string" \/ options.realm.str = <<>>)
        => /\ ~ac.ok
           /\ \A r \in Reqs : ~Sent(r)

\* all that Authorized holds for request r
Slot(r) ==
    [pc |-> pc[r], token |-> token[r], oidc |-> oidc[r], user |-> user[r],
     orgIdx |-> orgIdx[r], calls |-> calls[r], result |-> result[r]]

\* the answers httpClient.Do has returned to request r, in order
Responses(r) ==
    [i \in 1..(Len(calls[r]) - Cardinality(InFlight(r))) |-> calls[r][i].resp]

\* Authorized run alone with header h at time t, the identity API answering
\* its calls with resps in turn
AloneStep(a, st, resp) ==
    LET merge(n) == [st EXCEPT !.pc = n.pc, !.user = n.user, !.orgIdx = n.orgIdx,
                               !.calls = n.calls, !.result = n.result]
    IN  IF st.pc = "profile"
        THEN merge(authenticateGitHubResume(a, st.token, resp, Answered(st.calls, resp)))
        ELSE IF st.pc = "member"
        THEN merge(checkOrgMembershipResume(a, st.token, st.user, st.orgIdx, resp,
                                            Answered(st.calls, resp)))
        ELSE st

RECURSIVE AloneFrom(_, _, _)
AloneFrom(a, st, resps) ==
    IF resps = <<>> THEN st
    ELSE AloneFrom(a, AloneStep(a, st, Head(resps)), Tail(resps))

Alone(a, h, t, resps) ==
    LET start(s) == [pc |-> s.pc, token |-> s.token, oidc |-> s.oidc, user |-> ZeroUser,
                     orgIdx |-> 0, calls |-> s.calls, result |-> s.result]
    IN  AloneFrom(a, start(AuthorizedSync(a, h, t)), resps)

\* a step of one request leaves every other request as it was
OneRequestPerStep ==
    \E r \in Reqs : \A q \in Reqs \ {r} :
        /\ Slot(q)' = Slot(q)
        /\ header'[q] = header[q] /\ now'[q] = now[q] /\ canceled'[q] = canceled[q]

\* C18: with requests served at the same time, under every interleaving each
\* request is where the same request is when it runs alone and receives the
\* same answers, and no step of one request touches another.
C18_ConcurrentCallsIndependent ==
    /\ [](\A r \in Reqs :
            Sent(r) => Slot(r) = Alone(ac, header[r], now[r], Responses(r)))
    /\ [][OneRequestPerStep]_vars

C18_Witness ==
    /\ pc[1] = "done"
    /\ Len(calls[1]) = 3
    /\ result[1] = Grant(Alice.Login)
    /\ pc[2] = "member"
    /\ token[2] # token[1]
    /\ oidc[2] = AudienceMismatch

\* the characters of the middle segment of the token on the wire
Segment == Split(wire)[2]

\* C19: a payload encoded as JSON, in unpadded base64url, as the middle of
\* three segments, is decoded by decodeOIDCToken into a payload equal to it
\* field for field, whatever padding the length of the segment calls for.
C19_RoundTrip ==
    received # NotDecoded =>
        /\ received.ok
        /\ received.err = ""
        /\ \A f \in DOMAIN issued : received.payload[f] = issued[f]
        /\ DOMAIN received.payload = DOMAIN issued

C19_Witness ==
    /\ received # NotDecoded
    /\ received.ok
    /\ Len(Segment) % 4 = 2
    /\ \E i, j \in 1..Len(Segment) : Segment[i] = "-" /\ Segment[j] = "_"
    /\ issued.Exp = 1234567890
    /\ issued.Actor # issued.Sub


\* the claims tokens among the inputs whose payload lacks a required field:
\* the one without "actor" and the one whose payload is the empty object
IncompleteTokens == {MissingActorToken, <<"h", ".", "e", "3", "0", ".", "g">>}

\* C20: the claims verifier never grants a token whose payload omits sub, aud,
\* repository, actor, exp or iat, and never grants an empty principal name.
C20_MissingFieldsNeverGranted ==
    \A r \in Reqs :
        (Sent(r) /\ ac.enableOIDC)
            => /\ token[r] \in IncompleteTokens => oidc[r].kind # "grant"
               /\ oidc[r].kind = "grant" => oidc[r].name # <<>>

\* the outbound calls of request r so far: the profile call first; membership
\* calls only after a profile call answered 200 and with organizations
\* configured, one for each organization in configured order; a call answered
\* 204 is the last
CallSequence(r) ==
    /\ Len(calls[r]) <= 1 + Len(ac.allowedOrgs)
    /\ \A i \in 1..Len(calls[r]) :
        IF i = 1
        THEN calls[r][i].kind = "profile"
             /\ calls[r][i].url = ac.githubAPIURL \o githubUserEndpoint
        ELSE /\ calls[r][i].kind = "member"
             /\ calls[r][i].url = MemberRequest(ac, token[r], ac.allowedOrgs[i - 1],
                                                 user[r].Login).url
             /\ calls[r][1].resp.state = "answered"
             /\ calls[r][1].resp.status = StatusOK
             /\ calls[r][i - 1].resp.state # "pending"
             /\ ~(calls[r][i - 1].resp.state = "answered"
                  /\ calls[r][i - 1].resp.status = StatusNoContent /\ i > 2)

\* while a request is served its calls are only answered and appended to
CallsGrow(r) ==
    (pc[r] \in {"profile", "member"} /\ calls'[r] # calls[r])
        => /\ Len(calls'[r]) \in {Len(calls[r]), Len(calls[r]) + 1}
           /\ \A i \in 1..(Len(calls[r]) - 1) : calls'[r][i] = calls[r][i]
           /\ calls'[r][Len(calls[r])] =
                [calls[r][Len(calls[r])] EXCEPT !.resp = calls'[r][Len(calls[r])].resp]

\* C21: on the remote path the outbound calls are one profile call, then, only
\* after it succeeded and with organizations configured, membership requests
\* in configured order that stop right after the first confirmed membership.
C21_OutboundCallSequence ==
    /\ [](\A r \in Reqs : Sent(r) => CallSequence(r))
    /\ [][\A r \in Reqs : CallsGrow(r)]_vars

C21_Witness ==
    \E r \in Reqs :
        /\ pc[r] = "done"
        /\ Len(ac.allowedOrgs) = 2
        /\ Len(calls[r]) = 2
        /\ calls[r][2].resp = Answer(StatusNoContent, <<>>, TRUE)
        /\ result[r] = Grant(Alice.Login)

\* a membership call that ends without a 204 while organizations are left:
\* the request goes on with the call for the next organization
NextOrganizationAsked(r) ==
    LET n == Len(calls[r])
    IN  (/\ pc[r] = "member"
         /\ calls'[r] # calls[r]
         /\ n - 1 < Len(ac.allowedOrgs)
         /\ ~(calls'[r][n].resp.state = "answered"
              /\ calls'[r][n].resp.status = StatusNoContent))
            => /\ pc'[r] = "member"
               /\ result'[r] = NoResult
               /\ Len(calls'[r]) = n + 1
               /\ calls'[r][n + 1] =
                    MemberRequest(ac, token[r], ac.allowedOrgs[n], user[r].Login)

\* C22: a membership call answered with another status than 204, or failing
\* in transport, does not end the request: the next configured organization
\* is asked, and a later 204 yields the Grant for the profile's login.
C22_MembershipFailureContinues ==
    /\ [][\A r \in Reqs : NextOrganizationAsked(r)]_vars
    /\ [](\A r \in Reqs :
            (/\ Sent(r)
             /\ Len(calls[r]) > 2
             /\ calls[r][Len(calls[r])].resp.state = "answered"
             /\ calls[r][Len(calls[r])].resp.status = StatusNoContent)
                => (pc[r] = "done" /\ result[r] = Grant(user[r].Login)))

C22_Witness ==
    \E r \in Reqs :
        /\ pc[r] = "done"
        /\ ~canceled[r]
        /\ Len(calls[r]) = 3
        /\ calls[r][2].resp = TransportError
        /\ calls[r][3].resp = Answer(StatusNoContent, <<>>, TRUE)
        /\ result[r] = Grant(Alice.Login)

\* the calls of request r to one URL
CallsTo(r, url) == {i \in 1..Len(calls[r]) : calls[r][i].url = url}

\* C23: no outbound call is made twice: a request makes at most one profile
\* call and at most one membership call for each configured organization, and
\* a transport failure of the profile call ends it with the authentication
\* failure and no further call.
C23_NoRetry ==
    \A r \in Reqs :
        Sent(r) =>
            /\ Cardinality({i \in 1..Len(calls[r]) : calls[r][i].kind = "profile"}) <= 1
            /\ \A i \in 1..Len(calls[r]) : Cardinality(CallsTo(r, calls[r][i].url)) = 1
            /\ \A k \in 1..Len(ac.allowedOrgs) :
                    Cardinality(CallsTo(r, MemberRequest(ac, token[r], ac.allowedOrgs[k],
                                                         user[r].Login).url)) <= 1
            /\ (calls[r] # <<>> /\ calls[r][1].resp = TransportError)
                    => /\ pc[r] = "done"
                       /\ Len(calls[r]) = 1
                       /\ result[r] = Challenge(ac.realm, ErrAuthenticationFailure)

C23_Witness ==
    \E r \in Reqs :
        /\ pc[r] = "done"
        /\ ~canceled[r]
        /\ Len(ac.allowedOrgs) = 2
        /\ calls[r] # <<>>
        /\ calls[r][1].resp = TransportError
        /\ Len(calls[r]) = 1

\* the inputs that are no claims token, with the error decodeOIDCToken gives
MalformedTable ==
    {[tok |-> OpaqueToken, err |-> "invalid JWT token format"],
     [tok |-> <<"h", ".", "e", "3", "0">>, err |-> "invalid JWT token format"],
     [tok |-> <<"h", ".", "e", "3", "0", ".", "g", ".", "x">>, err |-> "invalid JWT token format"],
     [tok |-> <<"h", ".", "e", ".", "g">>, err |-> "failed to decode token payload"],
     [tok |-> <<"h", ".", "!", "!", "!", "!", ".", "g">>, err |-> "failed to decode token payload"],
     [tok |-> <<"h", ".", "a", "G", "k", ".", "g">>, err |-> "failed to parse token payload"]}

MalformedCredential(err) == Challenge(ac.realm, Err("invalid OIDC token", err, <<>>))

C25_OnlyMiddleSegmentCounts ==
    \A r, q \in Reqs :
        (/\ Sent(r) /\ Sent(q)
         /\ ac.enableOIDC
         /\ now[r] = now[q]
         /\ Len(Split(token[r])) = 3 /\ Len(Split(token[q])) = 3
         /\ Split(token[r])[2] = Split(token[q])[2])
            => oidc[r] = oidc[q]

C25_Witness ==
    /\ Sent(1) /\ Sent(2)
    /\ ac.oidcAudience # <<>>
    /\ token[1] # token[2]
    /\ Split(token[1])[2] = Split(token[2])[2]
    /\ Split(token[1])[1] # Split(token[2])[1]
    /\ Split(token[2])[3] = <<>>
    /\ oidc[1] = Grant(<<"u">>)
    /\ oidc[2] = Grant(<<"u">>)

\* C26: no call of Authorized, granted or refused, by the claims verifier or
\* by the GitHub verifier, changes a field of the access controller: realm,
\* githubAPIURL, allowedOrgs, allowedRepos, enableOIDC and oidcAudience keep
\* the values newAccessController gave them.
C26_PolicyNeverChanges ==
    /\ ac = newAccessController(options)
    /\ [][ac' = ac /\ options' = options]_vars

C26_Witness ==
    /\ pc[1] = "done"
    /\ ac.enableOIDC
    /\ ac.oidcAudience # <<>>
    /\ ac.allowedOrgs # <<>>
    /\ oidc[1].kind = "challenge"
    /\ Len(calls[1]) >= 2
    /\ result[1].kind = "grant"

\* C27: when "realm" is a string newAccessController succeeds whatever the
\* other options are, and an option that is absent or of another type leaves
\* its default: api_url the public GitHub API, enable_oidc false,
\* oidc_audience empty, allowed_orgs and allowed_repos empty.
C27_OptionalOptionsFallBack ==
    options.realm.type = "string" =>
        /\ ac.ok
        /\ ac.realm = options.realm.str
        /\ options.api_url.type # "string" => ac.githubAPIURL = githubAPIURL
        /\ options.enable_oidc.type # "bool" => ~ac.enableOIDC
        /\ options.oidc_audience.type # "string" => ac.oidcAudience = <<>>
        /\ options.allowed_orgs.type # "list" => ac.allowedOrgs = <<>>
        /\ options.allowed_repos.type # "list" => ac.allowedRepos = <<>>

C27_Witness ==
    /\ options.realm.type = "string"
    /\ options.api_url.type = "bool"
    /\ options.enable_oidc.type = "int"
    /\ options.oidc_audience.type = "list"
    /\ options.allowed_orgs.type = "int"
    /\ options.allowed_repos.type = "bool"
    /\ ac.ok
    /\ pc[1] = "done"
    /\ result[1].kind = "grant"

\* the two headers carry the same token under the two schemes
SchemesOf(h, g) ==
    \E tok \in {TrimPrefix(h.value, BearerPrefix)} :
        /\ h.present /\ g.present
        /\ h.value = BearerPrefix \o tok
        /\ g.value = TokenPrefix \o tok

\* C28: the requests for the profile and for the memberships carry
\* "Authorization: token <token>" with the very token taken from the inbound
\* header, under the scheme "Bearer " as under "token "; two inbound requests
\* that differ in the scheme alone, given the same answers, have the same
\* outcome.
C28_SchemeMakesNoDifference ==
    /\ \A r \in Reqs :
          (Sent(r) /\ token[r] # <<>>) =>
              /\ header[r].value \in {BearerPrefix \o token[r], TokenPrefix \o token[r]}
              /\ \A i \in 1..Len(calls[r]) : calls[r][i].auth = TokenPrefix \o token[r]
    /\ \A r, q \in Reqs :
          (/\ Sent(r) /\ Sent(q)
           /\ SchemesOf(header[r], header[q])
           /\ now[r] = now[q]
           /\ Responses(r) = Responses(q))
              => Slot(r) = Slot(q)

C28_Witness ==
    /\ pc[1] = "done" /\ pc[2] = "done"
    /\ SchemesOf(header[1], header[2])
    /\ ac.enableOIDC
    /\ oidc[1] = AudienceMismatch
    /\ Len(calls[1]) = 2
    /\ calls[1][2].auth = TokenPrefix \o TrimPrefix(header[1].value, BearerPrefix)
    /\ Responses(1) = Responses(2)
    /\ result[1] = Grant(Alice.Login)
    /\ result[2] = Grant(Alice.Login)

\* the three ways the Authorization header yields no credential
MissingHeader(h) == ~h.present \/ h.value = <<>>
UnrecognizedPrefix(h) ==
    /\ h.present /\ h.value # <<>>
    /\ ~HasPrefix(h.value, BearerPrefix)
    /\ ~HasPrefix(h.value, TokenPrefix)
EmptyToken(h) == h.present /\ h.value \in {BearerPrefix, TokenPrefix}

\* C29: when no credential can be extracted (header missing, prefix not
\* recognized, or token empty) Authorized returns a challenge without running
\* the claims verifier and without sending any request to the GitHub API.
C29_NoCredentialNoVerification ==
    \A r \in Reqs :
        (/\ Sent(r)
         /\ \/ MissingHeader(header[r])
            \/ UnrecognizedPrefix(header[r])
            \/ EmptyToken(header[r]))
            => /\ pc[r] = "done"
               /\ result[r].kind = "challenge"
               /\ oidc[r] = NoResult
               /\ calls[r] = <<>>

C29_Witness ==
    /\ Sent(1)
    /\ EmptyToken(header[1])
    /\ ac.enableOIDC
    /\ ac.allowedOrgs # <<>>
    /\ result[1] = Challenge(ac.realm, ErrInvalidCredential)
    /\ calls[1] = <<>>

\* the answer to the profile call is a success: status 200 and a body that
\* can be read and parsed
ProfileSucceeded(resp) ==
    /\ resp.state = "answered"
    /\ resp.status = StatusOK
    /\ resp.readable
    /\ resp.body \in {e.body : e \in ProfileTable}

\* C30: the GitHub verifier takes the profile call as successful only when its
\* status is exactly 200 and its body can be read and parsed: after any other
\* answer, one with status 201 or 204 included, Authorized is done with the
\* authentication failure, asks nothing more and grants nothing.
C30_ProfileSuccessOnlyOn200 ==
    \A r \in Reqs :
        (Sent(r) /\ calls[r] # <<>>) =>
            /\ (calls[r][1].resp # Pending /\ ~ProfileSucceeded(calls[r][1].resp))
                  => /\ pc[r] = "done"
                     /\ result[r] = Challenge(ac.realm, ErrAuthenticationFailure)
                     /\ Len(calls[r]) = 1
            /\ result[r].kind = "grant" => ProfileSucceeded(calls[r][1].resp)

C30_Witness ==
    /\ Sent(1)
    /\ ac.allowedOrgs = <<>>
    /\ Len(calls[1]) = 1
    /\ calls[1][1].resp = Answer(201, Marshal(githubUserFields, Alice), TRUE)
    /\ result[1] = Challenge(ac.realm, ErrAuthenticationFailure)
====
